---- MODULE Spec2Model ----
(***************************************************************************)
(* A model of mc_world_parser: the coordinate algebra of Position, the     *)
(* section decoder and network encoder, the region reader and the lazily   *)
(* caching world facade.                                                   *)
(*                                                                         *)
(* 64-bit words (the i64 entries of a data long-array, the u64/usize words *)
(* the encoder packs) are modelled as the set of their set bit positions,  *)
(* a subset of 0..63, so that shifts, masks and sign extension keep their  *)
(* exact 64-bit meaning.                                                   *)
(***************************************************************************)
EXTENDS Integers, Sequences, FiniteSets, TLC

VARIABLES
    conv,            \* coordinate algebra: the last conversion, its argument and result
    tag,             \* section: the section compound tag handed to Section::parse_section
    section,         \* section: the outcome of parse_section (Ok / Err / Panic)
    out,             \* section: the last call made on the parsed section and its result
    region_data,     \* region: the byte buffer handed to Region::parse_region
    region,          \* region: the outcome of parse_region (Ok / Err / Panic)
    rq,              \* region: the last lookup made on the parsed region and its result
    disk,            \* world: the files of the region directory, by region coordinate
    loaded_regions,  \* world: World::loaded_regions, the cache of decoded regions
    wq               \* world: the last query made on the world, its result and its file read

posVars == <<conv>>
secVars == <<tag, section, out>>
regVars == <<region_data, region, rq>>
worldVars == <<disk, loaded_regions, wq>>
vars == <<conv, tag, section, out, region_data, region, rq, disk, loaded_regions, wq>>

(***************************************************************************)
(* Bounds of the model.                                                    *)
(***************************************************************************)
\* world coordinates -MaxCoord..MaxCoord are enumerated next to the boundary samples
MaxCoord == 20
\* region buffers hold up to MaxSectors sectors behind the header
MaxSectors == 3

(***************************************************************************)
(* Option / Result values.                                                 *)
(***************************************************************************)
None == [tag |-> "None"]
Some(v) == [tag |-> "Some", v |-> v]
Ok(v) == [tag |-> "Ok", v |-> v]
Err(e) == [tag |-> "Err", e |-> e]
Panic == [tag |-> "Panic"]
\* the record of a call: the operation, its argument and what it returned
Call(op, arg, res) == [op |-> op, arg |-> arg, res |-> res]
NoCall == Call("none", None, None)

(***************************************************************************)
(* i32 arithmetic.                                                         *)
(***************************************************************************)
\* Rust's `/` on i32: the quotient is truncated toward zero
TruncDiv(a, b) == IF a >= 0 THEN a \div b ELSE -((-a) \div b)
\* Rust's `%` on i32: the remainder takes the sign of the dividend
TruncRem(a, b) == a - b * TruncDiv(a, b)
\* i32::rem_euclid with a positive modulus
RemEuclid(a, b) == a % b
ShiftTowardZero(a, s) == TruncDiv(a, 2 ^ s)
\* `>>` on i32 is an arithmetic shift: floor division by 2^s
Sar(a, s) == a \div (2 ^ s)
\* `(cond) as i32`
BoolAsInt(c) == IF c THEN 1 ELSE 0

(***************************************************************************)
(* Position (parser/mod.rs).                                               *)
(***************************************************************************)
Position_new(x, y, z) == [x |-> x, y |-> y, z |-> z]

region_in_world(p) == Position_new(Sar(p.x, 9), 0, Sar(p.z, 9))

chunk_in_region_truncating(p) ==
    Position_new(TruncDiv(p.x, 16), 0, TruncDiv(p.z, 16))

chunk_in_region(p) ==
    LET x == TruncDiv(p.x, 16) - BoolAsInt(p.x < 0)
        z == TruncDiv(p.z, 16) - BoolAsInt(p.z < 0)
    IN  Position_new(x, 0, z)

section_index_through_320(p) ==
    IF ~(p.y >= -64 /\ p.y <= 320) THEN None
    ELSE Some(TruncDiv(p.y + 64, 16))

section_index_in_chunk(p) ==
    IF ~(p.y >= -64 /\ p.y < 320) THEN None
    ELSE Some(TruncDiv(p.y + 64, 16))

block_in_section(p) ==
    Position_new(RemEuclid(p.x, 16), RemEuclid(p.y, 16), RemEuclid(p.z, 16))

block_index_in_section(p) ==
    LET q == block_in_section(p)
    IN  q.y * 16 * 16 + q.z * 16 + q.x

\* the coordinates the model queries: region, chunk and section boundaries on
\* both sides of zero, and every value of a small interval around zero
BoundaryCoords == {-1025, -1024, -513, -512, -511, -33, -32, -31, -17, -16, -15,
                   15, 16, 17, 31, 32, 33, 511, 512, 513, 1023, 1024}
Coords == BoundaryCoords \cup (-MaxCoord .. MaxCoord)
Heights == {-65, -64, -63, -49, -48, -17, -16, -1, 0, 1, 15, 16, 60, 83, 303, 304, 319, 320}
HorizontalPositions == {Position_new(x, 0, z) : x \in Coords, z \in {-16, -1, 0, 24}}
                       \cup {Position_new(x, 60, z) : x \in {-16, -1, 0, 24}, z \in Coords}
VerticalPositions == {Position_new(x, y, 15) : x \in {-1, 24}, y \in Heights}
Positions == HorizontalPositions \cup VerticalPositions

(***************************************************************************)
(* 64-bit words as sets of bit positions.                                  *)
(***************************************************************************)
WordBits == 0 .. 63
\* the bits of a natural number below 2^w
NatToBits(n, w) == {b \in 0 .. (w - 1) : (n \div (2 ^ b)) % 2 = 1}
RECURSIVE BitsToNat(_)
\* the value of a word whose set bits all lie below bit 31
BitsToNat(S) ==
    IF S = {} THEN 0
    ELSE LET b == CHOOSE x \in S : TRUE IN 2 ^ b + BitsToNat(S \ {b})
\* `a << s` on u64 / usize: bits shifted past bit 63 are lost
Shl(S, s) == {b + s : b \in {x \in S : x + s <= 63}}
\* `a >> s` on u64
Shr(S, s) == {b - s : b \in {x \in S : x >= s}}
And(S, T) == S \cap T
Or(S, T) == S \cup T
\* `v as u64` for an i32 v: two's complement, sign-extended to 64 bits
I32AsU64(v) == IF v >= 0 THEN NatToBits(v, 31) ELSE WordBits \ NatToBits(-(v + 1), 31)
\* `n as u64` / `n as usize` for a small non-negative n
NatAsU64(n) == NatToBits(n, 31)
\* u64::to_be_bytes / usize::to_be_bytes: byte 0 is the most significant
ToBeBytes(S) == [k \in 1 .. 8 |-> BitsToNat(Shr(And(S, (8 * (8 - k)) .. (8 * (8 - k) + 7)), 8 * (8 - k)))]
\* u16::to_be_bytes
U16ToBeBytes(n) == <<n \div 256, n % 256>>

RECURSIVE VarIntOfBits(_)
\* the protocol var-int of a 32-bit word: 7 bits per byte, low group first,
\* bit 7 of a byte set when more groups follow
VarIntOfBits(S) ==
    LET low == BitsToNat(And(S, 0 .. 6))
    IN  IF And(S, 7 .. 31) = {} THEN <<low>>
        ELSE <<low + 128>> \o VarIntOfBits(Shr(And(S, 0 .. 31), 7))
\* VarInt::new(v).bytes for an i32 v
VarInt_new(v) == VarIntOfBits(And(I32AsU64(v), 0 .. 31))

(***************************************************************************)
(* Block (parser/mod.rs) and Section (parser/section.rs).                  *)
(***************************************************************************)
\* Identifiers are numbered: each number stands for one identifier string,
\* AirId for "minecraft:air".
AirId == 0
WaterId == 1
NoProperties == {}
\* Block::new(identifier) as Section::parse_section calls it: from the Name alone
Block_new(identifier) == [identifier |-> identifier, properties |-> NoProperties]

\* the number of cells of a section: 16 * 16 * 16
SectionCells == 4096
Cells == 0 .. (SectionCells - 1)

RECURSIVE Ilog2(_)
\* usize::checked_ilog2(n).unwrap_or(0): floor(log2 n), 0 for n = 0
Ilog2(n) == IF n <= 1 THEN 0 ELSE 1 + Ilog2(n \div 2)
RECURSIVE RaiseBits(_, _)
\* the loop `while 2^bits < palette_size { bits += 1 }`
RaiseBits(bits, n) == IF 2 ^ bits < n THEN RaiseBits(bits + 1, n) ELSE bits

\* the width without the step from above 8 to 15
bits_needed_unclamped(palette_size) ==
    IF palette_size = 1 THEN 0
    ELSE LET raised == RaiseBits(Ilog2(palette_size), palette_size)
         IN  IF raised < 4 THEN 4 ELSE raised

bits_needed_for_palette(palette_size) ==
    IF palette_size = 1 THEN 0
    ELSE LET raised == RaiseBits(Ilog2(palette_size), palette_size)
             floored == IF raised < 4 THEN 4 ELSE raised
         IN  IF floored > 8 THEN 15 ELSE floored

\* the mask built by `palette_bits` rounds of `mask <<= 1; mask |= 1`
palette_mask(palette_bits) == 0 .. (palette_bits - 1)

\* the field of one cell as parse_section extracts it from its long
ExtractMsbFirst(long, palette_bits, sub_index) ==
    LET padding == 64 % palette_bits
        mask_shift == (64 - padding) - palette_bits * (sub_index + 1)
    IN  BitsToNat(Shr(And(long, Shl(palette_mask(palette_bits), mask_shift)), mask_shift))
ExtractField(long, palette_bits, sub_index) ==
    LET mask_shift == palette_bits * sub_index
    IN  BitsToNat(Shr(And(long, Shl(palette_mask(palette_bits), mask_shift)), mask_shift))

RECURSIVE DedupRange(_, _, _)
\* the distinct values of f[lo..hi] in the order of their first occurrence
\* (`if !palette.contains(&block) { palette.push(block) }` over the cells in order)
DedupRange(f, lo, hi) ==
    IF lo = hi THEN <<f[lo]>>
    ELSE LET mid == (lo + hi) \div 2
             left == DedupRange(f, lo, mid)
             right == DedupRange(f, mid + 1, hi)
             seen == {left[i] : i \in 1 .. Len(left)}
         IN  left \o SelectSeq(right, LAMBDA b : b \notin seen)

\* the same positions counted from 1
PositionFromOne(pal) ==
    [b \in {pal[i] : i \in 1 .. Len(pal)} |-> CHOOSE i \in 1 .. Len(pal) : pal[i] = b]
\* for each entry of a sequence of distinct values, its 0-based position
PositionIn(pal) ==
    [b \in {pal[i] : i \in 1 .. Len(pal)} |-> (CHOOSE i \in 1 .. Len(pal) : pal[i] = b) - 1]

NbtParseError == "NbtParseError"

parse_section(t) ==
    IF t.block_states = None THEN Err(NbtParseError)
    ELSE LET block_states == t.block_states.v IN
    IF block_states.palette = None THEN Err(NbtParseError)
    ELSE LET palette == block_states.palette.v IN
    IF Len(palette) = 1 THEN
        IF palette[1].Name = None THEN Err(NbtParseError)
        ELSE Ok([blocks |-> [pos \in Cells |-> 0],
                 palette |-> <<Block_new(palette[1].Name.v)>>])
    ELSE IF block_states.data = None THEN Err(NbtParseError)
    ELSE LET block_data == block_states.data.v
             palette_bits == bits_needed_for_palette(Len(palette))
             palette_entries_per_long == 64 \div palette_bits
             palette_index ==
                 [block_pos \in Cells |->
                     IF block_pos \div palette_entries_per_long >= Len(block_data)
                     THEN -1   \* block_data[block_data_index] is out of bounds
                     ELSE ExtractField(block_data[block_pos \div palette_entries_per_long + 1],
                                       palette_bits, block_pos % palette_entries_per_long)]
             panics ==
                 \E block_pos \in Cells :
                     \/ palette_index[block_pos] = -1
                     \/ palette_index[block_pos] >= Len(palette)
                     \/ palette[palette_index[block_pos] + 1].Name = None
         IN  IF panics THEN Panic
             ELSE LET blocks == [block_pos \in Cells |->
                                    Block_new(palette[palette_index[block_pos] + 1].Name.v)]
                      new_palette == DedupRange(blocks, 0, SectionCells - 1)
                      position == PositionIn(new_palette)
                  IN  Ok([blocks |-> [block_pos \in Cells |-> position[blocks[block_pos]]],
                          palette |-> new_palette])

\* Section::get: the block at a position relative to the section origin
Section_get(s, pos) == s.palette[s.blocks[block_index_in_section(pos)] + 1]

\* BlockIDGetter::id_of: the caller's map from a block to its global id. The
\* getters of the model: ids that fit 15 bits, ids at and above 2^15, negative
\* ids, and one id shared by every block.
IdGetters == {"small", "wide", "negative", "constant"}
id_of(getter, block) ==
    CASE getter = "small" -> block.identifier + 1
      [] getter = "wide" -> block.identifier + 32768
      [] getter = "negative" -> -1 - block.identifier
      [] getter = "constant" -> 7

\* the biome id network_data fabricates
FakeBiome == 8

\* the packed longs of network_data: self.blocks.chunks(entries_per_long), each
\* chunk or-ed into one word, `word[c]` shifted left by i * bits_per_entry for
\* the i-th cell c of the chunk
PackLongs(word, bits_per_entry) ==
    LET entries_per_long == 64 \div bits_per_entry
        count == (SectionCells + entries_per_long - 1) \div entries_per_long
    IN  [j \in 0 .. (count - 1) |->
            UNION {Shl(word[c], (c - j * entries_per_long) * bits_per_entry) :
                   c \in {k \in (j * entries_per_long) .. (j * entries_per_long + entries_per_long - 1) :
                          k < SectionCells}}]

\* `longs.iter().flat_map(|l| l.to_be_bytes())` behind the var-int of longs.len()
LongsBytes(longs) ==
    LET count == Cardinality(DOMAIN longs)
        bytes == [j \in DOMAIN longs |-> ToBeBytes(longs[j])]
    IN  VarInt_new(count) \o [k \in 1 .. (8 * count) |-> bytes[(k - 1) \div 8][((k - 1) % 8) + 1]]

\* a count over the distinct blocks instead of over the cells
CountNonAirDistinct(block_at) == Cardinality({b \in {block_at[c] : c \in Cells} : b.identifier # AirId})
CountNonAir(block_at) == Cardinality({c \in Cells : block_at[c].identifier # AirId})

UnmaskedId(getter, block) == I32AsU64(id_of(getter, block))
\* the word the direct form or-s into a long for one cell: `id_of(block) as u64`
DirectWord(getter, block) == UnmaskedId(getter, block)

network_data(s, getter) ==
    LET block_at == [c \in Cells |-> s.palette[s.blocks[c] + 1]]
        palette == DedupRange(block_at, 0, SectionCells - 1)
        block_count == CountNonAir(block_at)
        bits_per_entry == bits_needed_for_palette(Len(palette))
        position == PositionIn(palette)
        palette_ids == [i \in 1 .. Len(palette) |-> VarInt_new(id_of(getter, palette[i]))]
        RECURSIVE Flat(_)
        Flat(i) == IF i > Len(palette) THEN <<>> ELSE palette_ids[i] \o Flat(i + 1)
        indirect_word == [c \in Cells |-> NatAsU64(position[block_at[c]])]
        direct_word == [c \in Cells |-> DirectWord(getter, block_at[c])]
        container ==
            IF bits_per_entry = 0
            THEN VarInt_new(id_of(getter, palette[1])) \o <<0>>
            ELSE IF bits_per_entry >= 4 /\ bits_per_entry < 9
            THEN VarInt_new(Len(palette)) \o Flat(1)
                     \o LongsBytes(PackLongs(indirect_word, bits_per_entry))
            ELSE LongsBytes(PackLongs(direct_word, bits_per_entry))
    IN  U16ToBeBytes(block_count) \o <<bits_per_entry>> \o container
            \o <<0>> \o VarInt_new(FakeBiome) \o <<0>>

(***************************************************************************)
(* Section tags handed to the decoder.                                     *)
(***************************************************************************)
PaletteEntry(name, properties) == [Name |-> Some(name), Properties |-> properties]
NamelessEntry == [Name |-> None, Properties |-> NoProperties]
\* a palette of n entries with pairwise distinct names, air first
PaletteOf(n) == [i \in 1 .. n |-> PaletteEntry(i - 1, NoProperties)]
Level(v) == {<<"level", v>>}
AirWater == <<PaletteEntry(AirId, NoProperties), PaletteEntry(WaterId, Level("0"))>>
AirWaterWater == <<PaletteEntry(AirId, NoProperties), PaletteEntry(WaterId, Level("0")),
                   PaletteEntry(WaterId, Level("1"))>>
AirNameless == <<PaletteEntry(AirId, NoProperties), NamelessEntry>>

\* the on-disk packing of a grid of palette indices: `bits` per cell, the cells
\* of a long from its least significant bit up, `fill` or-ed into every long
PackGrid(value, bits, fill) ==
    LET per_long == 64 \div bits
        count == (SectionCells + per_long - 1) \div per_long
    IN  [j \in 1 .. count |->
            fill \cup UNION {Shl(NatToBits(value[c], bits), (c % per_long) * bits) :
                             c \in {k \in ((j - 1) * per_long) .. (j * per_long - 1) :
                                    k < SectionCells}}]

\* grids of palette indices for a palette of n entries
Grid(kind, n) ==
    [c \in Cells |->
        CASE kind = "zero" -> 0
          [] kind = "low_bit" -> IF c = 0 THEN 1 ELSE 0
          [] kind = "cycle" -> c % n
          [] kind = "stride" -> (c * 7 + c \div 256) % n
          [] kind = "last" -> IF c = SectionCells - 1 THEN n - 1 ELSE 0
          [] kind = "beyond" -> IF c = 5 THEN n ELSE c % n]

\* the width the game writes a palette of n >= 2 entries with: max(4, ceil(log2 n))
DiskBits(n) == LET raised == RaiseBits(Ilog2(n), n) IN IF raised < 4 THEN 4 ELSE raised
\* the padding bits of a long at the given width
PaddingBits(bits) == (64 - (64 % bits)) .. 63

SectionTag(palette, data) == [block_states |-> Some([palette |-> Some(palette), data |-> data])]
GridTag(palette, kind, bits, fill) ==
    SectionTag(palette, Some(PackGrid(Grid(kind, Len(palette)), bits, fill)))
ShortTag(palette, kind, bits) ==
    LET data == PackGrid(Grid(kind, Len(palette)), bits, {})
    IN  SectionTag(palette, Some(SubSeq(data, 1, Len(data) - 1)))

SectionTags ==
    {GridTag(PaletteOf(n), kind, DiskBits(n), {}) :
        n \in {2, 3, 16, 17, 256}, kind \in {"cycle", "low_bit"}}
    \cup {GridTag(PaletteOf(n), kind, DiskBits(n), {}) : n \in {3, 17}, kind \in {"zero", "stride", "last", "beyond"}}
    \cup {GridTag(PaletteOf(17), kind, 5, PaddingBits(5)) : kind \in {"cycle", "stride"}}
    \cup {GridTag(pal, kind, 4, {}) : pal \in {AirWater, AirWaterWater}, kind \in {"zero", "low_bit", "cycle", "beyond"}}
    \cup {GridTag(AirNameless, kind, 4, {}) : kind \in {"zero", "low_bit"}}
    \cup {GridTag(PaletteOf(257), kind, bits, {}) : kind \in {"cycle", "beyond"}, bits \in {9, 15}}
    \cup {GridTag(<<>>, "zero", 4, {}), ShortTag(PaletteOf(2), "cycle", 4)}
    \cup {SectionTag(pal, None) : pal \in {<<PaletteEntry(2, NoProperties)>>, <<PaletteEntry(AirId, NoProperties)>>,
                                           <<PaletteEntry(WaterId, Level("0"))>>, <<NamelessEntry>>, AirWater}}
    \cup {[block_states |-> None], [block_states |-> Some([palette |-> None, data |-> None])]}

\* in-section positions the model reads: the first cells, the cells either side
\* of a long boundary at each width, and the far corner
SectionPositions ==
    {Position_new(x, 0, 0) : x \in {0, 1, 3, 4, 5, 11, 12, 15}}
    \cup {Position_new(0, 0, 1), Position_new(0, 1, 0), Position_new(5, 7, 9), Position_new(15, 15, 15)}

(***************************************************************************)
(* The section operations.                                                 *)
(***************************************************************************)
ParseSection ==
    /\ section = None
    /\ section' = parse_section(tag)
    /\ UNCHANGED <<conv, tag, out, regVars, worldVars>>

\* Section::get and Section::network_data borrow the section immutably: a call
\* is made on the parsed section and its result stays in `out` until the
\* caller has taken it
SectionGet(pos) ==
    /\ section.tag = "Ok"
    /\ out = NoCall
    /\ out' = Call("get", pos, Section_get(section.v, pos))
    /\ UNCHANGED <<conv, tag, section, regVars, worldVars>>

NetworkData(getter) ==
    /\ section.tag = "Ok"
    /\ out = NoCall
    /\ out' = Call("network_data", getter, network_data(section.v, getter))
    /\ UNCHANGED <<conv, tag, section, regVars, worldVars>>

SectionReturn ==
    /\ out # NoCall
    /\ out' = NoCall
    /\ UNCHANGED <<conv, tag, section, regVars, worldVars>>

InitSection ==
    /\ conv = NoCall
    /\ tag \in SectionTags
    /\ section = None
    /\ out = NoCall
    /\ region_data = None
    /\ region = None
    /\ rq = NoCall
    /\ disk = None
    /\ loaded_regions = None
    /\ wq = NoCall

NextSection ==
    \/ ParseSection
    \/ \E pos \in SectionPositions : SectionGet(pos)
    \/ \E getter \in IdGetters : NetworkData(getter)
    \/ SectionReturn

SpecSection == InitSection /\ [][NextSection]_vars

(***************************************************************************)
(* Reading a section tag and a network payload back, for the properties    *)
(* below.                                                                  *)
(***************************************************************************)
\* the tag carries a palette of at least two entries and a data long-array
HasGrid(t) ==
    /\ t.block_states # None
    /\ t.block_states.v.palette # None
    /\ t.block_states.v.data # None
    /\ Len(t.block_states.v.palette.v) >= 2
TagPalette(t) == t.block_states.v.palette.v
TagData(t) == t.block_states.v.data.v
\* the data array has a long for every cell at the decoder's width
CoversEveryCell(t) ==
    LET bits == bits_needed_for_palette(Len(TagPalette(t)))
    IN  Len(TagData(t)) * (64 \div bits) >= SectionCells
\* (data[p / entries_per_long] >> (bits * (p mod entries_per_long))) & ((1 << bits) - 1)
LsbField(data, bits, p) ==
    LET entries_per_long == 64 \div bits
        long == data[p \div entries_per_long + 1]
        shift == bits * (p % entries_per_long)
    IN  BitsToNat({b \in 0 .. (bits - 1) : shift + b \in long})
\* the block a parsed section holds at cell c
BlockAtCell(s, c) == s.palette[s.blocks[c] + 1]

\* the i32 a 32-bit word stands for
BitsAsI32(S) == IF 31 \in S THEN -1 - BitsToNat((0 .. 30) \ S) ELSE BitsToNat(S)
RECURSIVE ReadVarIntBits(_, _, _)
\* a var-int read at index `at`: the word read and the index behind it
ReadVarIntBits(bytes, at, shift) ==
    LET group == Shl(NatToBits(bytes[at] % 128, 7), shift) \cap (0 .. 31)
    IN  IF bytes[at] < 128 THEN [bits |-> group, next |-> at + 1]
        ELSE LET rest == ReadVarIntBits(bytes, at + 1, shift + 7)
             IN  [bits |-> group \cup rest.bits, next |-> rest.next]
ReadVarInt(bytes, at) ==
    LET r == ReadVarIntBits(bytes, at, 0) IN [value |-> BitsAsI32(r.bits), next |-> r.next]
RECURSIVE ReadVarInts(_, _, _)
\* n var-ints read one behind the other
ReadVarInts(bytes, at, n) ==
    IF n = 0 THEN [values |-> <<>>, next |-> at]
    ELSE LET head == ReadVarInt(bytes, at)
             tail == ReadVarInts(bytes, head.next, n - 1)
         IN  [values |-> <<head.value>> \o tail.values, next |-> tail.next]
\* the big-endian long at index `at`
ReadLong(bytes, at) == UNION {Shl(NatToBits(bytes[at + k], 8), 8 * (7 - k)) : k \in 0 .. 7}

\* the ids of the 4096 cells a network payload decodes to: its block-state
\* container read by the declared bits per entry, fields LSB-first in
\* big-endian longs, through the emitted palette in the indirect form
DecodeIds(bytes) ==
    LET bits == bytes[3]
    IN  IF bits = 0
        THEN LET id == ReadVarInt(bytes, 4).value IN [c \in Cells |-> id]
        ELSE LET palette == IF bits <= 8
                            THEN LET n == ReadVarInt(bytes, 4)
                                 IN  ReadVarInts(bytes, n.next, n.value)
                            ELSE [values |-> <<>>, next |-> 4]
                 count == ReadVarInt(bytes, palette.next)
                 longs == [j \in 0 .. (count.value - 1) |-> ReadLong(bytes, count.next + 8 * j)]
                 per_long == 64 \div bits
                 field(c) == BitsToNat({b \in 0 .. (bits - 1) :
                                           bits * (c % per_long) + b \in longs[c \div per_long]})
             IN  [c \in Cells |-> IF bits <= 8 THEN palette.values[field(c) + 1] ELSE field(c)]

(***************************************************************************)
(* C3: for a section tag with a palette of at least two entries and a data *)
(* long-array, Section::get at the in-section position (x, y, z) returns   *)
(* the block of the palette entry whose index is the bits-wide field read  *)
(* LSB-first at linear position p = y*256 + z*16 + x, the padding bits at  *)
(* the top of each long ignored.                                           *)
(***************************************************************************)
C3_GetReadsLsbField ==
    (out.op = "get" /\ HasGrid(tag)) =>
        LET q == out.arg
            p == q.y * 256 + q.z * 16 + q.x
            bits == bits_needed_for_palette(Len(TagPalette(tag)))
            index == LsbField(TagData(tag), bits, p)
        IN  /\ index < Len(TagPalette(tag))
            /\ out.res.identifier = TagPalette(tag)[index + 1].Name.v

\* a cell in the middle of a long whose padding bits are set has been read
\* and is not the first palette entry
C3_Witness ==
    /\ out.op = "get"
    /\ tag = GridTag(PaletteOf(17), "stride", 5, PaddingBits(5))
    /\ out.arg = Position_new(5, 7, 9)
    /\ out.res.identifier # AirId

(***************************************************************************)
(* C4: decoding the bytes of network_data with the declared bits per entry *)
(* yields, for each of the 4096 cells, the id id_of gives the block of     *)
(* that cell, whatever ids id_of returns.                                  *)
(***************************************************************************)
C4_NetworkRoundTrip ==
    out.op = "network_data" =>
        LET ids == DecodeIds(out.res)
        IN  \A c \in Cells : ids[c] = id_of(out.arg, BlockAtCell(section.v, c))

\* the round trip where it does hold: the single-valued and indirect forms
\* with any ids, the direct form with ids in 0 .. 2^15 - 1
C4_RoundTripWhereIdsFit ==
    (out.op = "network_data" /\ (out.res[3] <= 8 \/ out.arg = "small")) =>
        LET ids == DecodeIds(out.res)
        IN  \A c \in Cells : ids[c] = id_of(out.arg, BlockAtCell(section.v, c))

(***************************************************************************)
(* C5: the first two bytes of network_data are the 16-bit big-endian count *)
(* of the cells whose block identifier is not minecraft:air, over all 4096 *)
(* cells, whichever container shape is chosen.                             *)
(***************************************************************************)
C5_BlockCount ==
    out.op = "network_data" =>
        /\ out.res[1] \in 0 .. 255 /\ out.res[2] \in 0 .. 255
        /\ out.res[1] * 256 + out.res[2]
               = Cardinality({c \in Cells : BlockAtCell(section.v, c).identifier # AirId})

\* a direct-form payload of a section holding both air and other blocks
C5_Witness ==
    /\ out.op = "network_data"
    /\ out.res[3] = 15
    /\ out.res[1] * 256 + out.res[2] \in 1 .. (SectionCells - 1)
    /\ \E c \in Cells : BlockAtCell(section.v, c).identifier = AirId

(***************************************************************************)
(* C7: when a section with a palette of at least two entries is decoded    *)
(* and some extracted packed index is not below the palette length, the    *)
(* parse returns an error value.                                           *)
(***************************************************************************)
C7_IndexBeyondPaletteIsError ==
    (/\ section # None
     /\ HasGrid(tag)
     /\ CoversEveryCell(tag)
     /\ \E p \in Cells :
            LsbField(TagData(tag), bits_needed_for_palette(Len(TagPalette(tag))), p)
                >= Len(TagPalette(tag)))
        => section.tag = "Err"

(***************************************************************************)
(* C13: for every parsed section and every cell, the block a query returns *)
(* carries the identifier and the complete property map of the palette     *)
(* entry the cell's packed index designates; two palette entries with the  *)
(* same identifier and different properties stay distinct blocks in the    *)
(* decoded section.                                                        *)
(***************************************************************************)
\* the on-disk palette entry of cell p: the only entry of a palette of one,
\* else the entry the LSB-first field of the cell designates
DesignatedEntry(t, p) ==
    IF Len(TagPalette(t)) = 1 THEN TagPalette(t)[1]
    ELSE TagPalette(t)[LsbField(TagData(t), bits_needed_for_palette(Len(TagPalette(t))), p) + 1]
\* the cells of the positions the model queries
QueriedCells == {block_index_in_section(q) : q \in SectionPositions}

C13_BlockCarriesProperties ==
    /\ out.op = "get" =>
          LET entry == DesignatedEntry(tag, block_index_in_section(out.arg))
          IN  out.res = [identifier |-> entry.Name.v, properties |-> entry.Properties]
    /\ section.tag = "Ok" =>
          \A c, d \in QueriedCells :
              DesignatedEntry(tag, c) # DesignatedEntry(tag, d)
                  => BlockAtCell(section.v, c) # BlockAtCell(section.v, d)

(***************************************************************************)
(* C15: for a section whose palette is [air, water] and whose data         *)
(* long-array is all zero except the lowest bit of long 0, the decoded     *)
(* section has water at exactly the in-section cell (1, 0, 0) and air at   *)
(* every other cell, and network_data reports a block count of 1.          *)
(***************************************************************************)
LowBitTag == GridTag(AirWater, "low_bit", 4, {})
\* the decoded section holds water at the cell of q and air everywhere else
WaterOnlyAt(q) ==
    \A c \in Cells :
        BlockAtCell(section.v, c).identifier
            = IF c = block_index_in_section(q) THEN WaterId ELSE AirId
ReportedBlockCount == out.res[1] * 256 + out.res[2]

C15_LowBitIsCellOne ==
    (tag = LowBitTag /\ section # None) =>
        /\ section.tag = "Ok"
        /\ WaterOnlyAt(Position_new(1, 0, 0))
        /\ out.op = "network_data" => ReportedBlockCount = 1

\* C15 as the code has it: the low bit of long 0 is the field of cell (0, 0, 0)
C15_LowBitIsCellZero ==
    (tag = LowBitTag /\ section # None) =>
        /\ section.tag = "Ok"
        /\ WaterOnlyAt(Position_new(0, 0, 0))
        /\ out.op = "network_data" => ReportedBlockCount = 1

\* the section of the low-bit tag has been decoded and encoded for the network
C15_Witness ==
    /\ tag = LowBitTag
    /\ section.tag = "Ok"
    /\ out.op = "network_data"
    /\ ReportedBlockCount = 1

(***************************************************************************)
(* C16: network_data chooses the container shape from the number n of      *)
(* distinct blocks in the grid: n = 1 gives the single-valued form (byte   *)
(* 0, var-int id, var-int 0); 2 <= n <= 256 the indirect form with         *)
(* bits = max(4, ceil(log2 n)), var-int n, n palette ids and               *)
(* ceil(4096 / floor(64 / bits)) longs; n > 256 the direct form with       *)
(* bits = 15, no palette and 1024 longs; every payload ends with the biome *)
(* container (byte 0, var-int biome id, byte 0).                           *)
(***************************************************************************)
\* the least k with 2^k >= n
CeilLog2(n) == CHOOSE k \in 0 .. 12 : 2 ^ k >= n /\ (k = 0 \/ 2 ^ (k - 1) < n)
\* the blocks present in the grid of a section
BlocksPresent(s) == {BlockAtCell(s, c) : c \in Cells}
\* the bytes from index `at` on are `count` longs behind their var-int count,
\* and then the biome container
LongsThenBiome(bytes, at, count) ==
    LET declared == ReadVarInt(bytes, at)
    IN  /\ declared.value = count
        /\ Len(bytes) = (declared.next - 1) + 8 * count + 3
        /\ SubSeq(bytes, Len(bytes) - 2, Len(bytes)) = <<0, 8, 0>>

C16_ContainerShape ==
    out.op = "network_data" =>
        LET n == Cardinality(BlocksPresent(section.v))
            bytes == out.res
            bits == bytes[3]
        IN  /\ n = 1 =>
                  LET id == ReadVarInt(bytes, 4)
                  IN  /\ bits = 0
                      /\ \A b \in BlocksPresent(section.v) : id.value = id_of(out.arg, b)
                      /\ SubSeq(bytes, id.next, Len(bytes)) = <<0, 0, 8, 0>>
            /\ (n >= 2 /\ n <= 256) =>
                  LET size == ReadVarInt(bytes, 4)
                      ids == ReadVarInts(bytes, size.next, n)
                      wanted == IF CeilLog2(n) < 4 THEN 4 ELSE CeilLog2(n)
                  IN  /\ bits = wanted /\ bits \in 4 .. 8
                      /\ size.value = n
                      /\ {ids.values[i] : i \in 1 .. n}
                             = {id_of(out.arg, b) : b \in BlocksPresent(section.v)}
                      /\ LongsThenBiome(bytes, ids.next,
                                        (SectionCells + (64 \div bits) - 1) \div (64 \div bits))
            /\ n > 256 =>
                  /\ bits = 15
                  /\ LongsThenBiome(bytes, 4, 1024)

\* an indirect payload at 8 bits per entry, of a section of 256 blocks
C16_Witness ==
    /\ out.op = "network_data"
    /\ Cardinality(BlocksPresent(section.v)) = 256
    /\ out.res[3] = 8

\* a direct payload, of a section of 257 blocks
C16_WitnessDirect ==
    /\ out.op = "network_data"
    /\ Cardinality(BlocksPresent(section.v)) = 257
    /\ out.res[3] = 15

(***************************************************************************)
(* C17: when a section with a palette of n >= 2 entries is decoded, the    *)
(* width used to unpack the data long-array is max(4, ceil(log2 n)) for    *)
(* every n (9 for 257..512), with 64 / bits entries per long.              *)
(***************************************************************************)
WantedBits(n) == IF CeilLog2(n) < 4 THEN 4 ELSE CeilLog2(n)
\* the data array of the tag is a grid of palette indices at the given width:
\* a long for every cell, and every field the index of a named entry
IsGridAt(t, bits) ==
    /\ Len(TagData(t)) * (64 \div bits) >= SectionCells
    /\ \A c \in Cells :
          /\ LsbField(TagData(t), bits, c) < Len(TagPalette(t))
          /\ TagPalette(t)[LsbField(TagData(t), bits, c) + 1].Name # None

C17_UnpackWidth ==
    (section # None /\ HasGrid(tag) /\ IsGridAt(tag, WantedBits(Len(TagPalette(tag))))) =>
        LET bits == WantedBits(Len(TagPalette(tag)))
        IN  /\ bits_needed_for_palette(Len(TagPalette(tag))) = bits
            /\ section.tag = "Ok"
            /\ \A c \in Cells :
                  BlockAtCell(section.v, c).identifier
                      = TagPalette(tag)[LsbField(TagData(tag), bits, c) + 1].Name.v

\* the same for palettes of at most 256 entries, where it holds
C17_UnpackWidthUpTo256 ==
    (/\ section # None /\ HasGrid(tag) /\ Len(TagPalette(tag)) <= 256
     /\ IsGridAt(tag, WantedBits(Len(TagPalette(tag))))) =>
        LET bits == WantedBits(Len(TagPalette(tag)))
        IN  /\ bits_needed_for_palette(Len(TagPalette(tag))) = bits
            /\ section.tag = "Ok"
            /\ \A c \in Cells :
                  BlockAtCell(section.v, c).identifier
                      = TagPalette(tag)[LsbField(TagData(tag), bits, c) + 1].Name.v

(***************************************************************************)
(* C18: every section a successful parse returns has a palette of at least *)
(* one entry, pairwise distinct, equal to the decoded on-disk palette in   *)
(* the same order; its index array has exactly 4096 entries, each in       *)
(* [0, palette length); for an on-disk palette of one entry all indices    *)
(* are 0 and no data array is read.                                        *)
(***************************************************************************)
\* the on-disk palette decoded entry by entry: identifier and properties
DecodedPalette(t) ==
    [i \in 1 .. Len(TagPalette(t)) |->
        [identifier |-> TagPalette(t)[i].Name.v, properties |-> TagPalette(t)[i].Properties]]
\* palette length, distinctness, and the index array
WellFormed(s) ==
    /\ Len(s.palette) >= 1
    /\ \A i, j \in 1 .. Len(s.palette) : i # j => s.palette[i] # s.palette[j]
    /\ DOMAIN s.blocks = Cells
    /\ Cardinality(DOMAIN s.blocks) = 4096
    /\ \A c \in Cells : s.blocks[c] \in 0 .. (Len(s.palette) - 1)
\* a palette of one named entry parses, with or without a data array, to
\* 4096 indices of 0
PaletteOfOne ==
    (/\ section # None /\ tag.block_states # None /\ tag.block_states.v.palette # None
     /\ Len(TagPalette(tag)) = 1 /\ TagPalette(tag)[1].Name # None)
        => /\ section.tag = "Ok"
           /\ \A c \in Cells : section.v.blocks[c] = 0
\* the first cell of the grid that holds palette index i
FirstCell(s, i) == CHOOSE c \in Cells : s.blocks[c] = i /\ \A d \in 0 .. (c - 1) : s.blocks[d] # i
\* the palette holds the blocks present in the grid and no other, in the
\* order of their first cells
InOrderOfFirstCell(s) ==
    /\ \A i \in 0 .. (Len(s.palette) - 1) : \E c \in Cells : s.blocks[c] = i
    /\ \A i \in 1 .. (Len(s.palette) - 1) : FirstCell(s, i - 1) < FirstCell(s, i)

C18_PaletteIsOnDiskPalette ==
    /\ section.tag = "Ok" =>
          /\ WellFormed(section.v)
          /\ section.v.palette = DecodedPalette(tag)
    /\ PaletteOfOne

\* C18 as the code has it: the palette is rebuilt from the decoded grid, one
\* entry per block present, in the order of first occurrence
C18_PaletteIsRebuilt ==
    /\ section.tag = "Ok" =>
          /\ WellFormed(section.v)
          /\ InOrderOfFirstCell(section.v)
    /\ PaletteOfOne

\* a section has been parsed whose grid leaves on-disk palette entries unused
C18_Witness ==
    /\ section.tag = "Ok"
    /\ Len(TagPalette(tag)) = 3
    /\ Len(section.v.palette) = 1

\* a palette of one entry has been parsed from a tag without a data array
C18_WitnessPaletteOfOne ==
    /\ section.tag = "Ok"
    /\ Len(TagPalette(tag)) = 1
    /\ tag.block_states.v.data = None

(***************************************************************************)
(* Chunk (parser/chunk.rs) and Region (parser/region.rs).                  *)
(***************************************************************************)
EndOfData == "EndOfData"
\* the 8 KiB header: 1024 location records and 1024 timestamp records
HeaderLen == 8192
SectorLen == 4096
SlotCount == 1024
Slots == 0 .. (SlotCount - 1)

ChunkLocation(offset, sectors) == [offset |-> offset, sectors |-> sectors]

Chunk_new(data_version, chunk_pos, status, sections) ==
    [data_version |-> data_version, chunk_pos |-> chunk_pos,
     status |-> status, sections |-> sections]

\* Chunk::get: the block at a position, by its section
Chunk_get(chunk, pos) ==
    LET index == section_index_in_chunk(pos)
    IN  IF index = None THEN None
        ELSE IF index.v >= Len(chunk.sections) THEN Panic   \* self.sections[i] out of bounds
        ELSE Some(Section_get(chunk.sections[index.v + 1], pos))

\* the least element of a non-empty set of integers
Least(S) == CHOOSE m \in S : \A n \in S : m <= n
RECURSIVE Ascending(_)
\* the elements of a finite set of integers in increasing order
Ascending(S) == IF S = {} THEN <<>> ELSE <<Least(S)>> \o Ascending(S \ {Least(S)})

\* Region::parse_sections: the sections in order, stopping at the first that fails
parse_sections(data) ==
    LET parsed == [i \in 1 .. Len(data) |-> parse_section(data[i])]
        failed == {i \in 1 .. Len(data) : parsed[i].tag # "Ok"}
    IN  IF failed # {} THEN parsed[Least(failed)]
        ELSE Ok([i \in 1 .. Len(data) |-> parsed[i].v])

\* the external tag decoders: parse_gzip and parse_zlib reject a payload that is
\* not a stream of their format, parse_binary returns the tag
Decode(compression_type, payload) ==
    CASE compression_type = 1 -> IF payload.format = "gzip" THEN Ok(payload.nbt) ELSE Err(NbtParseError)
      [] compression_type = 2 -> IF payload.format = "zlib" THEN Ok(payload.nbt) ELSE Err(NbtParseError)
      [] compression_type = 3 -> Ok(payload.nbt)

\* the `_ => unimplemented!()` arm of the match on the compression type
UnsupportedCompression(compression_type) == Panic

\* `.unwrap()` on the decoder's result
UnwrapFailed(e) == Panic

\* `raw_data.len() < (length - 1) as usize`, of the `available` bytes behind
\* the five header bytes: a negative length - 1 is a huge usize
ShortRead(length, available) == length - 1 < 0 \/ available < length - 1

\* Region::next_chunk on the bytes of one sector run: `record` is what the run
\* holds (length, compression type, payload), `run_len` its length in bytes
next_chunk(record, run_len) ==
    IF ShortRead(record.length, run_len - 5) THEN Err(EndOfData)
    ELSE IF record.compression \notin {1, 2, 3} THEN UnsupportedCompression(record.compression)
    ELSE LET parser_result == Decode(record.compression, record.payload) IN
    IF parser_result.tag # "Ok" THEN UnwrapFailed(parser_result.e)
    ELSE LET nbt == parser_result.v IN
    IF nbt.sections = None THEN Err(NbtParseError)
    ELSE LET sections == parse_sections(nbt.sections.v) IN
    IF sections.tag # "Ok" THEN sections
    ELSE IF \/ nbt.DataVersion = None \/ nbt.xPos = None \/ nbt.yPos = None
            \/ nbt.zPos = None \/ nbt.Status = None
         THEN Err(NbtParseError)
    ELSE Ok(Chunk_new(nbt.DataVersion.v, Position_new(nbt.xPos.v, nbt.yPos.v, nbt.zPos.v),
                      nbt.Status.v, sections.v))

\* a slot holds a chunk: `loc.offset != 0 && loc.sectors != 0`
Present(loc) == loc.offset # 0 /\ loc.sectors # 0

\* the slice region_data[offset*4096 .. offset*4096 + sectors*4096] is in bounds
RunInside(loc, len) == loc.offset * SectorLen + loc.sectors * SectorLen <= len

HeaderTruncatedOrBare(len) == len <= HeaderLen
\* `region_data.len() < 0x2000`
HeaderTruncated(len) == len < HeaderLen

\* Region::parse_region. The timestamp table is read and kept but never
\* consulted; the model leaves its values out.
parse_region(data) ==
    IF HeaderTruncated(data.len) THEN Err(EndOfData)
    ELSE LET present == {s \in Slots : Present(data.locations[s])}
             chunk == [s \in present |->
                         IF ~RunInside(data.locations[s], data.len) THEN Panic
                         ELSE next_chunk(data.sectors[data.locations[s].offset],
                                         data.locations[s].sectors * SectorLen)]
             failed == {s \in present : chunk[s].tag # "Ok"}
             order == Ascending(present)
         IN  IF failed # {} THEN chunk[Least(failed)]
             ELSE Ok([chunk_location_offsets |-> data.locations,
                      chunks |-> [i \in 1 .. Len(order) |-> chunk[order[i]].v]])

\* Region::get_chunk(x, z): the first chunk stored at chunk coordinates (x, z),
\* as the index of the chunk the returned reference points at
Region_get_chunk(r, x, z) ==
    LET found == {i \in 1 .. Len(r.chunks) :
                     r.chunks[i].chunk_pos.x = x /\ r.chunks[i].chunk_pos.z = z}
    IN  IF found = {} THEN None ELSE Some(Least(found))

FloorChunk(x, z) == [x |-> x \div 16, z |-> z \div 16]
\* the chunk coordinates Region::get looks up for a block position: x/16, z/16
SearchedChunk(x, z) == [x |-> TruncDiv(x, 16), z |-> TruncDiv(z, 16)]

\* Region::get(x, y, z)
Region_get(r, x, y, z) ==
    LET chunk == Region_get_chunk(r, SearchedChunk(x, z).x, SearchedChunk(x, z).z)
    IN  IF chunk = None THEN None
        ELSE Chunk_get(r.chunks[chunk.v], Position_new(TruncRem(x, 16), y, TruncRem(z, 16)))

(***************************************************************************)
(* Region buffers handed to the reader.                                    *)
(***************************************************************************)
UniformSection(name) == SectionTag(<<PaletteEntry(name, NoProperties)>>, None)
\* the sections of a full chunk, bottom to top, each filled with its own block
FullSections(base) == [i \in 1 .. ((320 + 64) \div 16) |-> UniformSection(base + i - 1)]
ChunkTag(x, z, sections) ==
    [DataVersion |-> Some(3465), xPos |-> Some(x), yPos |-> Some(-4), zPos |-> Some(z),
     Status |-> Some("minecraft:full"), sections |-> Some(sections)]
TagA == ChunkTag(0, 0, FullSections(100))
TagB == ChunkTag(-1, 0, FullSections(200))
TagC == ChunkTag(1, 1, <<UniformSection(300)>>)

Record(length, compression, format, nbt) ==
    [length |-> length, compression |-> compression, payload |-> [format |-> format, nbt |-> nbt]]
\* what a run of zero bytes reads as
ZeroRecord == Record(0, 0, "garbage", None)

\* what sector 2 of a buffer holds
FirstRecords ==
    {Record(1001, 2, "zlib", TagA), Record(1001, 1, "gzip", TagA), Record(1001, 3, "binary", TagA),
     Record(1001, 2, "zlib", TagB), Record(1001, 2, "zlib", ChunkTag(0, 0, <<UniformSection(100)>>))}
    \cup {Record(length, 2, "zlib", TagA) : length \in {-1, 0, 1, 4092, 4093, 9000}}
    \cup {Record(1001, compression, "zlib", TagA) : compression \in {-126, 0, 4}}
    \cup {Record(1001, 2, "gzip", TagA), Record(1001, 1, "garbage", None)}
    \cup {Record(1001, 2, "zlib", [TagA EXCEPT !.sections = None]),
          Record(1001, 2, "zlib", [TagA EXCEPT !.Status = None]),
          Record(1001, 2, "zlib", ChunkTag(0, 0, <<UniformSection(100), [block_states |-> None]>>)),
          Record(1001, 2, "zlib", ChunkTag(0, 0, <<GridTag(PaletteOf(3), "beyond", 4, {})>>))}

\* slot 0 points at sector 2 or holds no chunk; slots 31 and 33 hold the chunks
\* of sectors 3 and 4 when `neighbours` says so
Buffer(len, slot0, first, neighbours) ==
    [len |-> len,
     locations |-> [s \in Slots |->
                       IF s = 0 THEN slot0
                       ELSE IF s = 31 /\ neighbours >= 1 THEN ChunkLocation(3, 1)
                       ELSE IF s = 33 /\ neighbours >= 2 THEN ChunkLocation(4, 1)
                       ELSE ChunkLocation(0, 0)],
     sectors |-> [k \in 1 .. (MaxSectors + 2) |->
                     IF k = 2 THEN first
                     ELSE IF k = 3 THEN Record(1001, 2, "zlib", TagB)
                     ELSE IF k = 4 THEN Record(1001, 1, "gzip", TagC)
                     ELSE ZeroRecord]]

BufferLengths == {0, HeaderLen - 1} \cup {HeaderLen + k * SectorLen : k \in 0 .. MaxSectors}
RegionBuffers ==
    {Buffer(len, slot0, Record(1001, 2, "zlib", TagA), neighbours) :
        len \in BufferLengths,
        slot0 \in {ChunkLocation(0, 0), ChunkLocation(0, 1), ChunkLocation(2, 0), ChunkLocation(1, 1)},
        neighbours \in 0 .. 2}
    \cup {Buffer(len, slot0, first, neighbours) :
            len \in BufferLengths, slot0 \in {ChunkLocation(2, 1), ChunkLocation(2, 2)},
            first \in FirstRecords, neighbours \in 0 .. 2}

RegionPositions ==
    {Position_new(24, 60, 15), Position_new(0, 60, 0), Position_new(15, -64, 15),
     Position_new(8, 319, 8), Position_new(8, 320, 8), Position_new(-1, 60, 0),
     Position_new(-16, 60, 0), Position_new(-17, 60, 0), Position_new(0, 60, -1),
     Position_new(16, 60, 16), Position_new(17, -64, 31), Position_new(-1, -65, 0)}
ChunkCoords == {[x |-> x, z |-> z] : x \in {-2, -1, 0, 1}, z \in {0, 1}}

(***************************************************************************)
(* The region operations.                                                  *)
(***************************************************************************)
ParseRegion ==
    /\ region_data # None
    /\ region = None
    /\ region' = parse_region(region_data)
    /\ UNCHANGED <<posVars, secVars, region_data, rq, worldVars>>

RegionGet(pos) ==
    /\ region.tag = "Ok"
    /\ rq = NoCall
    /\ rq' = Call("get", pos, Region_get(region.v, pos.x, pos.y, pos.z))
    /\ UNCHANGED <<posVars, secVars, region_data, region, worldVars>>

RegionGetChunk(c) ==
    /\ region.tag = "Ok"
    /\ rq = NoCall
    /\ rq' = Call("get_chunk", c, Region_get_chunk(region.v, c.x, c.z))
    /\ UNCHANGED <<posVars, secVars, region_data, region, worldVars>>

RegionReturn ==
    /\ rq # NoCall
    /\ rq' = NoCall
    /\ UNCHANGED <<posVars, secVars, region_data, region, worldVars>>

InitRegion ==
    /\ conv = NoCall
    /\ tag = None
    /\ section = None
    /\ out = NoCall
    /\ region_data \in RegionBuffers
    /\ region = None
    /\ rq = NoCall
    /\ disk = None
    /\ loaded_regions = None
    /\ wq = NoCall

NextRegion ==
    \/ ParseRegion
    \/ \E pos \in RegionPositions : RegionGet(pos)
    \/ \E c \in ChunkCoords : RegionGetChunk(c)
    \/ RegionReturn

SpecRegion == InitRegion /\ [][NextRegion]_vars

(***************************************************************************)
(* Reading a region buffer by hand, for the properties below.              *)
(***************************************************************************)
PresentSlots(data) == {s \in Slots : data.locations[s].offset # 0 /\ data.locations[s].sectors # 0}
\* the first slot in header order that holds a chunk
FirstPresent(data) == Least(PresentSlots(data))
\* the sector run of a slot ends behind the end of the buffer
RunPastEnd(data, s) ==
    data.locations[s].offset * 4096 + data.locations[s].sectors * 4096 > data.len
\* the record at the head of the run of a slot
RecordOf(data, s) == data.sectors[data.locations[s].offset]
\* the declared length asks for more payload bytes than the run holds behind
\* its five header bytes, or is 0
PayloadPastRun(data, s) ==
    \/ RecordOf(data, s).length = 0
    \/ RecordOf(data, s).length - 1 > data.locations[s].sectors * 4096 - 5

(***************************************************************************)
(* C2: when the decoded chunks of a region include one stored at chunk     *)
(* coordinates (floor(x/16), floor(z/16)), the region block lookup at      *)
(* (x, y, z) selects that chunk and returns its block there; it returns    *)
(* absent only when no decoded chunk has those coordinates; the chunk      *)
(* coordinate it searches for lies in the region region_in_world(x, y, z). *)
(***************************************************************************)
C2_RegionGetSelectsFloorChunk ==
    rq.op = "get" =>
        LET p == rq.arg
            target == FloorChunk(p.x, p.z)
            stored == {i \in 1 .. Len(region.v.chunks) :
                          /\ region.v.chunks[i].chunk_pos.x = target.x
                          /\ region.v.chunks[i].chunk_pos.z = target.z}
            searched == SearchedChunk(p.x, p.z)
        IN  /\ stored = {} => rq.res = None
            /\ stored # {} => rq.res = Chunk_get(region.v.chunks[Least(stored)], p)
            /\ region_in_world(Position_new(searched.x * 16, 0, searched.z * 16)) = region_in_world(p)

\* the same lookup at the positions with x >= 0 and z >= 0, where it holds
C2_HoldsOffNegativeAxes ==
    (rq.op = "get" /\ rq.arg.x >= 0 /\ rq.arg.z >= 0) =>
        LET p == rq.arg
            target == FloorChunk(p.x, p.z)
            stored == {i \in 1 .. Len(region.v.chunks) :
                          /\ region.v.chunks[i].chunk_pos.x = target.x
                          /\ region.v.chunks[i].chunk_pos.z = target.z}
            searched == SearchedChunk(p.x, p.z)
        IN  /\ stored = {} => rq.res = None
            /\ stored # {} => rq.res = Chunk_get(region.v.chunks[Least(stored)], p)
            /\ region_in_world(Position_new(searched.x * 16, 0, searched.z * 16)) = region_in_world(p)

(***************************************************************************)
(* C8: when the first chunk of a region buffer is complete and its         *)
(* compression discriminator is none of 1, 2, 3, Region parse returns an   *)
(* error for the region; when the discriminator is 1 or 2 and the decoder  *)
(* rejects the payload, it returns the tag-decode error.                   *)
(***************************************************************************)
C8_BadCompressionIsError ==
    (/\ region # None
     /\ region_data.len >= 8192
     /\ PresentSlots(region_data) # {}
     /\ ~RunPastEnd(region_data, FirstPresent(region_data))
     /\ ~PayloadPastRun(region_data, FirstPresent(region_data))
     /\ RecordOf(region_data, FirstPresent(region_data)).length >= 1)
        => LET record == RecordOf(region_data, FirstPresent(region_data))
           IN  /\ record.compression \notin {1, 2, 3}
                      => region.tag = "Err" /\ region.e \notin {EndOfData, NbtParseError}
               /\ (/\ record.compression = 1 => record.payload.format # "gzip"
                   /\ record.compression = 2 => record.payload.format # "zlib"
                   /\ record.compression \in {1, 2})
                      => region = Err(NbtParseError)

(***************************************************************************)
(* C9: for a region buffer of at least 8192 bytes whose first chunk slot   *)
(* has a sector run extending past the end of the buffer, or a declared    *)
(* payload length (0 included) exceeding the bytes of the run, Region      *)
(* parse returns the End-of-data error.                                    *)
(***************************************************************************)
C9_TruncatedChunkIsEndOfData ==
    (/\ region # None
     /\ region_data.len >= 8192
     /\ PresentSlots(region_data) # {}
     /\ \/ RunPastEnd(region_data, FirstPresent(region_data))
        \/ PayloadPastRun(region_data, FirstPresent(region_data)))
        => region = Err(EndOfData)

\* the half of it that holds: a run inside the buffer whose payload is short
C9_ShortPayloadIsEndOfData ==
    (/\ region # None
     /\ region_data.len >= 8192
     /\ PresentSlots(region_data) # {}
     /\ ~RunPastEnd(region_data, FirstPresent(region_data))
     /\ PayloadPastRun(region_data, FirstPresent(region_data)))
        => region = Err(EndOfData)

(***************************************************************************)
(* C10: Region parse returns End-of-data for every buffer shorter than     *)
(* 8192 bytes; a buffer of at least 8192 bytes whose location records are  *)
(* all (0, 0) parses to a region of zero chunks on which every get_chunk   *)
(* returns absent; a parsed region holds as many chunks as there are slots *)
(* with offset # 0 and count # 0.                                          *)
(***************************************************************************)
C10_HeaderAndEmptyRegion ==
    region # None =>
        /\ region_data.len < 8192 => region = Err(EndOfData)
        /\ (/\ region_data.len >= 8192
            /\ \A s \in Slots : region_data.locations[s] = ChunkLocation(0, 0))
               => /\ region.tag = "Ok"
                  /\ region.v.chunks = <<>>
                  /\ rq.op = "get_chunk" => rq.res = None
        /\ region.tag = "Ok"
               => Len(region.v.chunks)
                      = Cardinality({s \in Slots : /\ region_data.locations[s].offset # 0
                                                   /\ region_data.locations[s].sectors # 0})

\* a buffer of exactly 0x2000 bytes with an all-zero header has been parsed and
\* asked for a chunk
C10_Witness ==
    /\ region_data.len = 8192
    /\ \A s \in Slots : region_data.locations[s] = ChunkLocation(0, 0)
    /\ region.tag = "Ok"
    /\ rq.op = "get_chunk"
    /\ rq.res = None

(***************************************************************************)
(* C11: section_index_in_chunk returns (y+64)/16, a value in 0..23,        *)
(* exactly when y is in [-64, 320), and absent for every other y; the      *)
(* chunk block lookup returns absent for every y outside [-64, 320) and,   *)
(* inside it, reads the section of that index.                             *)
(***************************************************************************)
\* the chunk Region::get hands the query to, as an index into region.v.chunks
QueriedChunk(p) == Region_get_chunk(region.v, SearchedChunk(p.x, p.z).x, SearchedChunk(p.x, p.z).z)
InHeight(y) == y >= -64 /\ y < 320

C11_SectionIndexAndChunkLookup ==
    /\ \A y \in Heights :
          LET index == section_index_in_chunk(Position_new(0, y, 0))
          IN  /\ InHeight(y) => index = Some((y + 64) \div 16) /\ index.v \in 0 .. 23
              /\ ~InHeight(y) => index = None
    /\ section_index_in_chunk(Position_new(0, -64, 0)) = Some(0)
    /\ section_index_in_chunk(Position_new(0, 319, 0)) = Some(23)
    /\ (rq.op = "get" /\ QueriedChunk(rq.arg) # None) =>
          LET p == rq.arg
              chunk == region.v.chunks[QueriedChunk(p).v]
              local == Position_new(TruncRem(p.x, 16), p.y, TruncRem(p.z, 16))
          IN  /\ ~InHeight(p.y) => rq.res = None
              /\ (InHeight(p.y) /\ Len(chunk.sections) = 24)
                     => rq.res = Some(Section_get(chunk.sections[((p.y + 64) \div 16) + 1], local))

\* a chunk of 24 sections has been asked for a block at y = 320 and answered
\* absent, and the same at y = -65
C11_Witness ==
    /\ rq.op = "get"
    /\ rq.arg.y \in {-65, 320}
    /\ QueriedChunk(rq.arg) # None
    /\ Len(region.v.chunks[QueriedChunk(rq.arg).v].sections) = 24
    /\ rq.res = None

(***************************************************************************)
(* C19: every chunk of a successfully parsed region holds exactly 24       *)
(* sections, so that a chunk lookup at a position with y in [-64, 320)     *)
(* indexes an existing section and returns a block; a chunk tag with a     *)
(* sections list of another length is never turned into a chunk on which   *)
(* such a lookup indexes out of range.                                     *)
(***************************************************************************)
C19_ChunksHoldEverySection ==
    /\ region.tag = "Ok" =>
          \A i \in 1 .. Len(region.v.chunks) : Len(region.v.chunks[i].sections) = 24
    /\ (rq.op = "get" /\ QueriedChunk(rq.arg) # None /\ InHeight(rq.arg.y))
          => rq.res.tag = "Some"

\* what does hold: a chunk has as many sections as its tag lists, and the
\* lookup returns a block exactly when the list reaches the section of y
C19_SectionsAsListed ==
    (rq.op = "get" /\ QueriedChunk(rq.arg) # None /\ InHeight(rq.arg.y)) =>
        LET chunk == region.v.chunks[QueriedChunk(rq.arg).v]
        IN  IF (rq.arg.y + 64) \div 16 < Len(chunk.sections)
            THEN rq.res.tag = "Some"
            ELSE rq.res = Panic

(***************************************************************************)
(* World (loader.rs).                                                      *)
(***************************************************************************)
\* BTreeMap::insert
MapInsert(map, key, value) ==
    [k \in DOMAIN map \cup {key} |-> IF k = key THEN value ELSE map[k]]
EmptyMap == [k \in {} |-> None]

\* the tail of load_region, from the parse result on: `.ok()?` on it, then
\* `self.loaded_regions.insert(pos, region); Some(())`
insert_parsed(loaded, pos, parsed) ==
    IF parsed.tag = "Panic" THEN [ret |-> Panic, loaded |-> loaded, read |-> TRUE]
    ELSE IF parsed.tag = "Err" THEN [ret |-> None, loaded |-> loaded, read |-> TRUE]
    ELSE [ret |-> Some(<<>>), loaded |-> MapInsert(loaded, pos, parsed.v), read |-> TRUE]

\* World::load_region: what it returns, the cache behind it, and whether the
\* region file was read. `files` is the region directory.
load_region(loaded, files, pos) ==
    IF files[pos] = None                                  \* fs::read(..).ok()?
    THEN [ret |-> None, loaded |-> loaded, read |-> TRUE]
    ELSE insert_parsed(loaded, pos, parse_region(files[pos].v))

\* the region a query works on: the cached one, or else the one load_region
\* has just inserted; absent (or a panic) when the load fails
region_of(loaded, files, pos) ==
    IF pos \in DOMAIN loaded
    THEN [ret |-> Some(<<>>), loaded |-> loaded, read |-> FALSE]
    ELSE load_region(loaded, files, pos)

\* the tail of get_block: `region.get(pos).cloned()` on the region found
block_in(got, pos) ==
    [res |-> IF got.ret.tag # "Some" THEN got.ret
             ELSE Region_get(got.loaded[region_in_world(pos)], pos.x, pos.y, pos.z),
     loaded |-> got.loaded, read |-> got.read]

\* World::get_block
get_block(loaded, files, pos) == block_in(region_of(loaded, files, region_in_world(pos)), pos)

\* the tail of get_chunk: `region.get_chunk(pos).cloned()` on the region found
chunk_in(got, pos) ==
    [res |-> IF got.ret.tag # "Some" THEN got.ret
             ELSE LET r == got.loaded[region_in_world(pos)]
                      chunk == Region_get_chunk(r, SearchedChunk(pos.x, pos.z).x,
                                                SearchedChunk(pos.x, pos.z).z)
                  IN  IF chunk = None THEN None ELSE Some(r.chunks[chunk.v]),
     loaded |-> got.loaded, read |-> got.read]

\* World::get_chunk: the chunk of the position, cloned
get_chunk(loaded, files, pos) == chunk_in(region_of(loaded, files, region_in_world(pos)), pos)

(***************************************************************************)
(* The region directory and the world operations.                          *)
(***************************************************************************)
WorldKeys == {Position_new(0, 0, 0), Position_new(-1, 0, 0)}
WorldPositions == {Position_new(0, 60, 0), Position_new(8, 320, 8), Position_new(-1, 60, 0)}
\* region files: a region of one full chunk, a truncated header, a chunk with
\* compression type 4, a chunk whose sector run ends behind the file
RegionFiles ==
    {Buffer(HeaderLen + SectorLen, ChunkLocation(2, 1), Record(1001, 2, "zlib", TagA), 0),
     Buffer(HeaderLen - 1, ChunkLocation(0, 0), ZeroRecord, 0),
     Buffer(HeaderLen + SectorLen, ChunkLocation(2, 1), Record(1001, 4, "zlib", TagA), 0),
     Buffer(HeaderLen, ChunkLocation(2, 1), Record(1001, 2, "zlib", TagA), 0)}
DiskFiles == {None} \cup {Some(f) : f \in RegionFiles}

WorldCall(op, arg, got) == [op |-> op, arg |-> arg, res |-> got.res, read |-> got.read]

\* a query updates the cache and hands back its result in one step
Query(op, pos, got) ==
    /\ wq' = WorldCall(op, pos, got)
    /\ loaded_regions' = got.loaded
    /\ UNCHANGED <<posVars, secVars, regVars, disk>>

GetBlock(pos) ==
    /\ wq = NoCall
    /\ Query("get_block", pos, get_block(loaded_regions, disk, pos))

GetChunk(pos) ==
    /\ wq = NoCall
    /\ Query("get_chunk", pos, get_chunk(loaded_regions, disk, pos))

WorldReturn ==
    /\ wq # NoCall
    /\ wq' = NoCall
    /\ UNCHANGED <<posVars, secVars, regVars, disk, loaded_regions>>

\* between two queries a region file is written, replaced or removed by the game
FileChanges(key, file) ==
    /\ wq = NoCall
    /\ disk[key] # file
    /\ disk' = [disk EXCEPT ![key] = file]
    /\ UNCHANGED <<posVars, secVars, regVars, loaded_regions, wq>>

InitWorld ==
    /\ conv = NoCall
    /\ tag = None
    /\ section = None
    /\ out = NoCall
    /\ region_data = None
    /\ region = None
    /\ rq = NoCall
    /\ disk \in [WorldKeys -> DiskFiles]
    /\ loaded_regions = EmptyMap
    /\ wq = NoCall

NextWorld ==
    \/ \E pos \in WorldPositions : GetBlock(pos)
    \/ \E pos \in WorldPositions : GetChunk(pos)
    \/ WorldReturn
    \/ \E key \in WorldKeys, file \in DiskFiles : FileChanges(key, file)

SpecWorld == InitWorld /\ [][NextWorld]_vars

(***************************************************************************)
(* C6: in any sequence of get_block / get_chunk calls, a query whose       *)
(* region file cannot be read or fails to parse returns absent and leaves  *)
(* the cache unchanged; a successful load inserts exactly one entry, keyed *)
(* by region_in_world(pos); once a key is cached no later query reads its  *)
(* file again, and a cached entry is never replaced or removed.            *)
(***************************************************************************)
C6_LazyCache ==
    [][/\ \A k \in DOMAIN loaded_regions :
              k \in DOMAIN loaded_regions' /\ loaded_regions'[k] = loaded_regions[k]
       /\ (wq = NoCall /\ wq' # NoCall) =>
              LET key == region_in_world(wq'.arg)
              IN  /\ key \in DOMAIN loaded_regions
                         => ~wq'.read /\ loaded_regions' = loaded_regions
                  /\ key \notin DOMAIN loaded_regions
                         => /\ wq'.read
                            /\ IF disk[key] = None \/ parse_region(disk[key].v).tag # "Ok"
                               THEN wq'.res = None /\ loaded_regions' = loaded_regions
                               ELSE loaded_regions'
                                        = MapInsert(loaded_regions, key, parse_region(disk[key].v).v)
      ]_vars

\* what does hold of the cache: the same, except that a file on which
\* parse_region panics makes the query panic instead of returning absent
C6_CacheButForPanics ==
    [][/\ \A k \in DOMAIN loaded_regions :
              k \in DOMAIN loaded_regions' /\ loaded_regions'[k] = loaded_regions[k]
       /\ (wq = NoCall /\ wq' # NoCall) =>
              LET key == region_in_world(wq'.arg)
              IN  /\ key \in DOMAIN loaded_regions
                         => ~wq'.read /\ loaded_regions' = loaded_regions
                  /\ key \notin DOMAIN loaded_regions
                         => /\ wq'.read
                            /\ IF disk[key] = None \/ parse_region(disk[key].v).tag = "Err"
                               THEN wq'.res = None /\ loaded_regions' = loaded_regions
                               ELSE IF parse_region(disk[key].v).tag = "Panic"
                               THEN wq'.res = Panic /\ loaded_regions' = loaded_regions
                               ELSE loaded_regions'
                                        = MapInsert(loaded_regions, key, parse_region(disk[key].v).v)
      ]_vars

(***************************************************************************)
(* The coordinate algebra as operations on a position.                     *)
(***************************************************************************)

RegionInWorld(p) ==
    /\ conv' = Call("region_in_world", p, region_in_world(p))
    /\ UNCHANGED <<secVars, regVars, worldVars>>

ChunkInRegion(p) ==
    /\ conv' = Call("chunk_in_region", p, chunk_in_region(p))
    /\ UNCHANGED <<secVars, regVars, worldVars>>

SectionIndexInChunk(p) ==
    /\ conv' = Call("section_index_in_chunk", p, section_index_in_chunk(p))
    /\ UNCHANGED <<secVars, regVars, worldVars>>

BlockInSection(p) ==
    /\ conv' = Call("block_in_section", p, block_in_section(p))
    /\ UNCHANGED <<secVars, regVars, worldVars>>

BlockIndexInSection(p) ==
    /\ conv' = Call("block_index_in_section", p, block_index_in_section(p))
    /\ UNCHANGED <<secVars, regVars, worldVars>>

InitPos ==
    /\ conv = NoCall
    /\ tag = None
    /\ section = None
    /\ out = NoCall
    /\ region_data = None
    /\ region = None
    /\ rq = NoCall
    /\ disk = None
    /\ loaded_regions = None
    /\ wq = NoCall

NextPos ==
    \E p \in Positions :
        \/ RegionInWorld(p)
        \/ ChunkInRegion(p)
        \/ SectionIndexInChunk(p)
        \/ BlockInSection(p)
        \/ BlockIndexInSection(p)

SpecPos == InitPos /\ [][NextPos]_vars

(***************************************************************************)
(* C1: for every world position p, chunk_in_region(p) * 16 +               *)
(* block_in_section(p) gives back p on the x axis and on the z axis, and   *)
(* block_in_section(p).y is the Euclidean remainder of p.y by 16.          *)
(***************************************************************************)
C1_Reassemble ==
    conv.op = "chunk_in_region" =>
        LET p == conv.arg
            b == block_in_section(p)
        IN  /\ conv.res.x * 16 + b.x = p.x
            /\ conv.res.z * 16 + b.z = p.z
            /\ b.y = p.y % 16
            /\ b.y \in 0 .. 15

(***************************************************************************)
(* C12: for every world position, region_in_world returns                  *)
(* (floor(x/512), 0, floor(z/512)), rounding toward negative infinity, so  *)
(* x = -1 and x = -512 map to region x = -1 and x = 0..511 to region 0;    *)
(* the y component is always 0.                                            *)
(***************************************************************************)
\* q is the floor of a / 512: the multiple of 512 at or below a
IsFloor512(q, a) == q * 512 <= a /\ a < q * 512 + 512

C12_RegionInWorldFloors ==
    conv.op = "region_in_world" =>
        /\ IsFloor512(conv.res.x, conv.arg.x)
        /\ IsFloor512(conv.res.z, conv.arg.z)
        /\ conv.res.y = 0
        /\ conv.arg.x \in {-512, -1} => conv.res.x = -1
        /\ conv.arg.x \in 0 .. 511 => conv.res.x = 0

\* region_in_world has been applied to a position with x = -1, z = -512 and
\* y # 0
C12_Witness ==
    /\ conv.op = "region_in_world"
    /\ conv.arg.x = -1
    /\ conv.arg.z = -512
    /\ conv.arg.y # 0
    /\ conv.res = Position_new(-1, 0, -1)

(***************************************************************************)
(* C14: chunk_in_region applied to the position x = -1, z = 0 yields       *)
(* x = -1, z = -1, and block_in_section applied to the same position       *)
(* yields x = 15, z = 0.                                                   *)
(***************************************************************************)
C14_ChunkOfMinusOneZero ==
    (conv.arg # None /\ conv.arg.x = -1 /\ conv.arg.z = 0) =>
        /\ conv.op = "chunk_in_region" => conv.res.x = -1 /\ conv.res.z = -1
        /\ conv.op = "block_in_section" => conv.res.x = 15 /\ conv.res.z = 0

\* C14 as the code has it: the chunk of x = -1, z = 0 is x = -1, z = 0
C14_ChunkOfMinusOneZeroAmended ==
    (conv.arg # None /\ conv.arg.x = -1 /\ conv.arg.z = 0) =>
        /\ conv.op = "chunk_in_region" => conv.res.x = -1 /\ conv.res.z = 0
        /\ conv.op = "block_in_section" => conv.res.x = 15 /\ conv.res.z = 0

\* chunk_in_region has been applied to a position with x = -1, z = 0
C14_Witness ==
    /\ conv.op = "chunk_in_region"
    /\ conv.arg.x = -1
    /\ conv.arg.z = 0
    /\ conv.res = Position_new(-1, 0, 0)

====
